---------------------------- MODULE Spec2Model ----------------------------
(***************************************************************************)
(* A model of the Go package metaphone: the Double Metaphone encoder       *)
(* (metaphone.go) and the convenience index built on it (convenience.go).  *)
(*                                                                         *)
(* Go indexes from 0 and TLA+ from 1: every accessor below takes the Go    *)
(* index and adds 1 itself.                                                *)
(***************************************************************************)
EXTENDS Integers, Sequences, FiniteSets, TLC

VARIABLES
    \* ---- one call of DoubleMetaphone ----
    word,       \* the argument word, as passed by the caller
    maxlengthArg, \* the argument maxlength, as passed by the caller
    maxlength,  \* the local maxlength: the argument, then the coerced value
    pc,         \* position in DoubleMetaphone
    length,     \* len(word): the BYTE length of the argument
    last,       \* length - 1
    rword,      \* []rune(ToUpper(word) + pad)
    current,    \* the cursor
    primary,    \* strings.Builder primary
    secondary,  \* strings.Builder secondary
    alternate,  \* the alternate flag
    metaph,     \* first result
    metaph2,    \* second result
    panicked,   \* MetaphAdd panicked (called with no or more than two tokens)
    paired,     \* history: some MetaphAdd call was given a pair of tokens
    iters,      \* history: iterations of the main loop executed
    \* ---- a MetaphMap and the calls made on it ----
    wordlist,   \* the argument of NewMetaphMap
    maxLen,     \* the argument maxLen of NewMetaphMap
    built,      \* how many words of wordlist NewMetaphMap has consumed
    mpc,        \* position in NewMetaphMap: "build" or "ready"
    mapper,     \* metaph.mapper: key -> slice [arr, len]; cap is Len(arr)
    maxlen,     \* metaph.maxlen
    call,       \* per caller: the frame of its call on the MetaphMap
    \* ---- calls of DoubleMetaphone made side by side ----
    dm          \* per caller: the frame of its call of DoubleMetaphone

encVars == <<word, maxlengthArg, maxlength, pc, length, last, rword, current, primary,
             secondary, alternate, metaph, metaph2, panicked, paired, iters>>
mapVars == <<wordlist, maxLen, built, mpc, mapper, maxlen, call>>
pairVars == <<dm>>
vars == <<encVars, mapVars, pairVars>>

(***************************************************************************)
(* Characters.  A Go string is a sequence of UTF-8 bytes and []rune(word)  *)
(* the sequence of its code points.  A word is modelled as the tuple of    *)
(* its code points, each written as the character itself ("K", "ç") or,   *)
(* for a code point outside Latin-1, by its name ("U+017F").  The codes    *)
(* DoubleMetaphone returns are ASCII, and are TLA+ strings.                *)
(***************************************************************************)
LowerASCII == "abcdefghijklmnopqrstuvwxyz"
UpperASCII == "ABCDEFGHIJKLMNOPQRSTUVWXYZ"

\* []rune(s) of a Go string literal.
Runes(s) == [i \in 1..Len(s) |-> SubSeq(s, i, i)]

LongS == "U+017F"      \* LATIN SMALL LETTER LONG S, upper case S
DotlessI == "U+0131"   \* LATIN SMALL LETTER DOTLESS I, upper case I
KelvinSign == "U+212A" \* KELVIN SIGN, lower case k

\* Code points that take two and three bytes in UTF-8.
TwoByteRunes == {"Ç", "ç", "Ñ", "ñ", LongS, DotlessI}
ThreeByteRunes == {KelvinSign}

\* utf8.RuneLen, on the characters the model draws words from.
RuneLen(c) ==
    IF c \in ThreeByteRunes THEN 3
    ELSE IF c \in TwoByteRunes THEN 2
    ELSE 1

RECURSIVE ByteLen(_)
\* len(word) of a Go string: its number of bytes.
ByteLen(w) ==
    IF Len(w) = 0 THEN 0 ELSE RuneLen(Head(w)) + ByteLen(Tail(w))

UpperOfLower ==
    [c \in {SubSeq(LowerASCII, i, i) : i \in 1..26} |->
        LET i == CHOOSE j \in 1..26 : SubSeq(LowerASCII, j, j) = c
        IN  SubSeq(UpperASCII, i, i)]

LowerOfUpper ==
    [c \in {SubSeq(UpperASCII, i, i) : i \in 1..26} |->
        LET i == CHOOSE j \in 1..26 : SubSeq(UpperASCII, j, j) = c
        IN  SubSeq(LowerASCII, i, i)]

\* unicode.ToUpper: the simple upper-case mapping of one code point.
ToUpperRune(c) ==
    IF c \in DOMAIN UpperOfLower THEN UpperOfLower[c]
    ELSE IF c = "ç" THEN "Ç"
    ELSE IF c = "ñ" THEN "Ñ"
    ELSE IF c = LongS THEN "S"
    ELSE IF c = DotlessI THEN "I"
    ELSE c

\* unicode.ToLower.
ToLowerRune(c) ==
    IF c \in DOMAIN LowerOfUpper THEN LowerOfUpper[c]
    ELSE IF c = "Ç" THEN "ç"
    ELSE IF c = "Ñ" THEN "ñ"
    ELSE IF c = KelvinSign THEN "k"
    ELSE c

\* strings.ToUpper and strings.ToLower map every code point.
ToUpper(w) == [i \in 1..Len(w) |-> ToUpperRune(w[i])]

ToLower(w) == [i \in 1..Len(w) |-> ToLowerRune(w[i])]

(***************************************************************************)
(* DoubleMetaphone: the environment of one call.                           *)
(*   e = [rword, length, last]   fixed after preprocessing                 *)
(*   s = [current, primary, secondary, alternate, panicked, paired]        *)
(***************************************************************************)
pad == "     "

DefaultMaxLength == 4

\* rune(0), what GetAt returns out of range.
NUL == ""

\* Mutant of EmptyWord: no early return.
EmptyWordNever(w) == FALSE

\* length < 1: the early return.
EmptyWord(w) == ByteLen(w) < 1

\* Mutant of Coerce: another default.
CoerceToSix(L) == IF L < 1 THEN 6 ELSE L

\* maxlength < 1 is replaced by 4.
Coerce(L) == IF L < 1 THEN DefaultMaxLength ELSE L

Env(w) ==
    [rword  |-> ToUpper(w) \o Runes(pad),
     length |-> ByteLen(w),
     last   |-> ByteLen(w) - 1]

rwordLen(e) == Len(e.rword)

\* string(rword[from : to]) = p, for an ASCII literal p.
Window(e, from, to, p) ==
    /\ to - from = Len(p)
    /\ \A i \in 1..Len(p) : e.rword[from + i] = SubSeq(p, i, i)

\* strings.Contains(word, s), word being the upper-cased, padded word.
Found(e, s) ==
    \E from \in 0..(rwordLen(e) - Len(s)) : Window(e, from, from + Len(s), s)

SlavoGermanic(e) == Found(e, "W") \/ Found(e, "K") \/ Found(e, "CZ")

GetAt(e, at) ==
    IF at < 0 \/ at >= rwordLen(e) THEN NUL ELSE e.rword[at + 1]

IsVowel(e, at) ==
    IF at < 0 \/ at >= rwordLen(e) THEN FALSE
    ELSE GetAt(e, at) \in {"A", "E", "I", "O", "U", "Y"}

\* StringAt(start, length, s...): the window must end before the last rune.
StringAt(e, start, len, s) ==
    IF start < 0 \/ (start + len) >= rwordLen(e) THEN FALSE
    ELSE \E p \in s : Window(e, start, start + len, p)

(***************************************************************************)
(* What one pass through the switch does: the MetaphAdd calls it makes, in *)
(* order, each with its argument list, and the amount added to current.    *)
(***************************************************************************)
Fire(adds, adv) == [adds |-> adds, adv |-> adv]
None == << >>
Add(main) == << <<main>> >>
\* Mutant of Add2: a rule calls MetaphAdd with three tokens.
Add3(main, alt) == << <<main, alt, alt>> >>

Add2(main, alt) == << <<main, alt>> >>

CaseVowel(e, cur) ==
    IF cur = 0 THEN Fire(Add("A"), 1) ELSE Fire(None, 1)

CaseB(e, cur) ==
    IF GetAt(e, cur + 1) = "B" THEN Fire(Add("P"), 2) ELSE Fire(Add("P"), 1)

CaseCCedilla(e, cur) == Fire(Add("S"), 1)

\* case 'C', the rules from "CH" on (lines 193-234).
CaseCH(e, cur) ==
    IF cur > 0 /\ StringAt(e, cur, 4, {"CHAE"}) THEN Fire(Add2("K", "X"), 2)
    ELSE IF cur = 0
            /\ (StringAt(e, cur + 1, 5, {"HARAC", "HARIS"})
                \/ StringAt(e, cur + 1, 3, {"HOR", "HYM", "HIA", "HEM"}))
            /\ ~StringAt(e, 0, 5, {"CHORE"})
         THEN Fire(Add("K"), 2)
    ELSE IF (StringAt(e, 0, 4, {"VAN ", "VON "}) \/ StringAt(e, 0, 3, {"SCH"}))
            \/ StringAt(e, cur - 2, 6, {"ORCHES", "ARCHIT", "ORCHID"})
            \/ StringAt(e, cur + 2, 1, {"T", "S"})
            \/ ((StringAt(e, cur - 1, 1, {"A", "O", "U", "E"}) \/ cur = 0)
                /\ StringAt(e, cur + 2, 1,
                            {"L", "R", "N", "M", "B", "H", "F", "V", "W", " "}))
         THEN Fire(Add("K"), 2)
    ELSE IF cur > 0
         THEN IF StringAt(e, 0, 2, {"MC"}) THEN Fire(Add("K"), 2)
              ELSE Fire(Add2("X", "K"), 2)
    ELSE Fire(Add("X"), 2)

\* case 'C', double 'C' (lines 250-268).
CaseCC(e, cur) ==
    IF StringAt(e, cur + 2, 1, {"I", "E", "H"})
       /\ ~StringAt(e, cur + 2, 2, {"HU"})
    THEN IF (cur = 1 /\ GetAt(e, cur - 1) = "A")
            \/ StringAt(e, cur - 1, 5, {"UCCEE", "UCCES"})
         THEN Fire(Add("KS"), 3)
         ELSE Fire(Add("X"), 3)
    ELSE Fire(Add("K"), 2)

CaseC(e, cur) ==
    IF cur > 1
       /\ ~IsVowel(e, cur - 2)
       /\ StringAt(e, cur - 1, 3, {"ACH"})
       /\ (GetAt(e, cur + 2) # "I"
           /\ (GetAt(e, cur + 2) # "E"
               \/ StringAt(e, cur - 2, 6, {"BACHER", "MACHER"})))
    THEN Fire(Add("K"), 2)
    ELSE IF cur = 0 /\ StringAt(e, cur, 6, {"CAESAR"}) THEN Fire(Add("S"), 2)
    ELSE IF StringAt(e, cur, 4, {"CHIA"}) THEN Fire(Add("K"), 2)
    ELSE IF StringAt(e, cur, 2, {"CH"}) THEN CaseCH(e, cur)
    ELSE IF StringAt(e, cur, 2, {"CZ"}) /\ ~StringAt(e, cur - 2, 4, {"WICZ"})
         THEN Fire(Add2("S", "X"), 2)
    ELSE IF StringAt(e, cur + 1, 3, {"CIA"}) THEN Fire(Add("X"), 3)
    ELSE IF StringAt(e, cur, 2, {"CC"}) /\ ~(cur = 1 /\ GetAt(e, 0) = "M")
         THEN CaseCC(e, cur)
    ELSE IF StringAt(e, cur, 2, {"CK", "CG", "CQ"}) THEN Fire(Add("K"), 2)
    ELSE IF StringAt(e, cur, 2, {"CI", "CE", "CY"})
         THEN IF StringAt(e, cur, 3, {"CIO", "CIE", "CIA"})
              THEN Fire(Add2("S", "X"), 2)
              ELSE Fire(Add("S"), 2)
    ELSE IF StringAt(e, cur + 1, 2, {" C", " Q", " G"}) THEN Fire(Add("K"), 3)
    ELSE IF StringAt(e, cur + 1, 1, {"C", "K", "Q"})
            /\ ~StringAt(e, cur + 1, 2, {"CE", "CI"})
         THEN Fire(Add("K"), 2)
    ELSE Fire(Add("K"), 1)

CaseD(e, cur) ==
    IF StringAt(e, cur, 2, {"DG"})
    THEN IF StringAt(e, cur + 2, 1, {"I", "E", "Y"})
         THEN Fire(Add("J"), 3)
         ELSE Fire(Add("TK"), 2)
    ELSE IF StringAt(e, cur, 2, {"DT", "DD"}) THEN Fire(Add("T"), 2)
    ELSE Fire(Add("T"), 1)

CaseF(e, cur) ==
    IF GetAt(e, cur + 1) = "F" THEN Fire(Add("F"), 2) ELSE Fire(Add("F"), 1)

\* case 'G' followed by 'H' (lines 330-367).
CaseGH(e, cur) ==
    IF cur > 0 /\ ~IsVowel(e, cur - 1) THEN Fire(Add("K"), 2)
    ELSE IF cur < 3 /\ cur = 0
         THEN IF GetAt(e, cur + 2) = "I" THEN Fire(Add("J"), 2)
              ELSE Fire(Add("K"), 2)
    ELSE IF ~((cur > 1 /\ StringAt(e, cur - 2, 1, {"B", "H", "D"}))
              \/ (cur > 2 /\ StringAt(e, cur - 3, 1, {"B", "H", "D"}))
              \/ (cur > 3 /\ StringAt(e, cur - 4, 1, {"B", "H"})))
         THEN IF cur > 2 /\ GetAt(e, cur - 1) = "U"
                 /\ StringAt(e, cur - 3, 1, {"C", "G", "L", "R", "T"})
              THEN Fire(Add("F"), 2)
              ELSE IF cur > 0 /\ GetAt(e, cur - 1) # "I"
                   THEN Fire(Add("K"), 2)
                   ELSE Fire(None, 2)
    ELSE Fire(None, 2)

\* case 'G' followed by 'N' (lines 369-383).
CaseGN(e, cur) ==
    IF cur = 1 /\ IsVowel(e, 0) /\ ~SlavoGermanic(e)
    THEN Fire(Add2("KN", "N"), 2)
    ELSE IF ~StringAt(e, cur + 2, 2, {"EY"})
            /\ GetAt(e, cur + 1) # "Y" /\ ~SlavoGermanic(e)
         THEN Fire(Add2("N", "KN"), 2)
         ELSE Fire(Add("KN"), 2)

CaseG(e, cur) ==
    IF GetAt(e, cur + 1) = "H" THEN CaseGH(e, cur)
    ELSE IF GetAt(e, cur + 1) = "N" THEN CaseGN(e, cur)
    ELSE IF StringAt(e, cur + 1, 2, {"LI"}) /\ ~SlavoGermanic(e)
         THEN Fire(Add2("KL", "L"), 2)
    ELSE IF cur = 0
            /\ (GetAt(e, cur + 1) = "Y"
                \/ StringAt(e, cur + 1, 2,
                            {"ES", "EP", "EB", "EL", "EY", "IB", "IL", "IN",
                             "IE", "EI", "ER"}))
         THEN Fire(Add2("K", "J"), 2)
    ELSE IF (StringAt(e, cur + 1, 2, {"ER"}) \/ GetAt(e, cur + 1) = "Y")
            /\ ~StringAt(e, 0, 6, {"DANGER", "RANGER", "MANGER"})
            /\ ~StringAt(e, cur - 1, 1, {"E", "I"})
            /\ ~StringAt(e, cur - 1, 3, {"RGY", "OGY"})
         THEN Fire(Add2("K", "J"), 2)
    ELSE IF StringAt(e, cur + 1, 1, {"E", "I", "Y"})
            \/ StringAt(e, cur - 1, 4, {"AGGI", "OGGI"})
         THEN IF StringAt(e, 0, 4, {"VAN ", "VON "})
                 \/ StringAt(e, 0, 3, {"SCH"})
                 \/ StringAt(e, cur + 1, 2, {"ET"})
              THEN Fire(Add("K"), 2)
              ELSE IF StringAt(e, cur + 1, 4, {"IER "})
                   THEN Fire(Add("J"), 2)
                   ELSE Fire(Add2("J", "K"), 2)
    ELSE IF GetAt(e, cur + 1) = "G" THEN Fire(Add("K"), 2)
    ELSE Fire(Add("K"), 1)

CaseH(e, cur) ==
    IF (cur = 0 \/ IsVowel(e, cur - 1)) /\ IsVowel(e, cur + 1)
    THEN Fire(Add("H"), 2)
    ELSE Fire(None, 1)

\* case 'J', the MetaphAdd of lines 456-474.
AddsJ(e, cur) ==
    IF cur = 0 /\ ~StringAt(e, cur, 4, {"JOSE"}) THEN Add2("J", "A")
    ELSE IF IsVowel(e, cur - 1)
            /\ ~SlavoGermanic(e)
            /\ (GetAt(e, cur + 1) = "A" \/ GetAt(e, cur + 1) = "O")
         THEN Add2("J", "H")
    ELSE IF cur = e.last THEN Add2("J", " ")
    ELSE IF ~StringAt(e, cur + 1, 1, {"L", "T", "K", "S", "N", "M", "B", "Z"})
            /\ ~StringAt(e, cur - 1, 1, {"S", "K", "L"})
         THEN Add("J")
    ELSE None

CaseJ(e, cur) ==
    IF StringAt(e, cur, 4, {"JOSE"}) \/ StringAt(e, 0, 4, {"SAN "})
    THEN IF (cur = 0 /\ GetAt(e, cur + 4) = " ")
            \/ StringAt(e, 0, 4, {"SAN "})
         THEN Fire(Add("H"), 1)
         ELSE Fire(Add2("J", "H"), 1)
    ELSE Fire(AddsJ(e, cur), IF GetAt(e, cur + 1) = "J" THEN 2 ELSE 1)

CaseK(e, cur) ==
    IF GetAt(e, cur + 1) = "K" THEN Fire(Add("K"), 2) ELSE Fire(Add("K"), 1)

CaseL(e, cur) ==
    IF GetAt(e, cur + 1) = "L"
    THEN IF (cur = e.length - 3
             /\ StringAt(e, cur - 1, 4, {"ILLO", "ILLA", "ALLE"}))
            \/ ((StringAt(e, e.last - 1, 2, {"AS", "OS"})
                 \/ StringAt(e, e.last, 1, {"A", "O"}))
                /\ StringAt(e, cur - 1, 4, {"ALLE"}))
         THEN Fire(Add2("L", " "), 2)
         ELSE Fire(Add("L"), 2)
    ELSE Fire(Add("L"), 1)

CaseM(e, cur) ==
    IF (StringAt(e, cur - 1, 3, {"UMB"})
        /\ (cur + 1 = e.last \/ StringAt(e, cur + 2, 2, {"ER"})))
       \/ GetAt(e, cur + 1) = "M"
    THEN Fire(Add("M"), 2)
    ELSE Fire(Add("M"), 1)

CaseN(e, cur) ==
    IF GetAt(e, cur + 1) = "N" THEN Fire(Add("N"), 2) ELSE Fire(Add("N"), 1)

CaseNTilde(e, cur) == Fire(Add("N"), 1)

CaseP(e, cur) ==
    IF GetAt(e, cur + 1) = "H" THEN Fire(Add("F"), 2)
    ELSE IF StringAt(e, cur + 1, 1, {"P", "B"}) THEN Fire(Add("P"), 2)
    ELSE Fire(Add("P"), 1)

CaseQ(e, cur) ==
    IF GetAt(e, cur + 1) = "Q" THEN Fire(Add("K"), 2) ELSE Fire(Add("K"), 1)

CaseR(e, cur) ==
    Fire(IF cur = e.last /\ ~SlavoGermanic(e)
            /\ StringAt(e, cur - 2, 2, {"IE"})
            /\ ~StringAt(e, cur - 4, 2, {"ME", "MA"})
         THEN Add2("", "R")
         ELSE Add("R"),
         IF GetAt(e, cur + 1) = "R" THEN 2 ELSE 1)

\* case 'S' followed by 'C' (lines 608-640).
CaseSC(e, cur) ==
    IF GetAt(e, cur + 2) = "H"
    THEN IF StringAt(e, cur + 3, 2, {"OO", "ER", "EN", "UY", "ED", "EM"})
         THEN IF StringAt(e, cur + 3, 2, {"ER", "EN"})
              THEN Fire(Add2("X", "SK"), 3)
              ELSE Fire(Add("SK"), 3)
         ELSE IF cur = 0 /\ ~IsVowel(e, 3) /\ GetAt(e, 3) # "W"
              THEN Fire(Add2("X", "S"), 3)
              ELSE Fire(Add("X"), 3)
    ELSE IF StringAt(e, cur + 2, 1, {"I", "E", "Y"}) THEN Fire(Add("S"), 3)
    ELSE Fire(Add("SK"), 3)

CaseS(e, cur) ==
    IF StringAt(e, cur - 1, 3, {"ISL", "YSL"}) THEN Fire(None, 1)
    ELSE IF cur = 0 /\ StringAt(e, cur, 5, {"SUGAR"})
         THEN Fire(Add2("X", "S"), 1)
    ELSE IF StringAt(e, cur, 2, {"SH"})
         THEN IF StringAt(e, cur + 1, 4, {"HEIM", "HOEK", "HOLM", "HOLZ"})
              THEN Fire(Add("S"), 2)
              ELSE Fire(Add("X"), 2)
    ELSE IF StringAt(e, cur, 3, {"SIO", "SIA"}) \/ StringAt(e, cur, 4, {"SIAN"})
         THEN IF ~SlavoGermanic(e)
              THEN Fire(Add2("S", "X"), 3)
              ELSE Fire(Add("S"), 3)
    ELSE IF (cur = 0 /\ StringAt(e, cur + 1, 1, {"M", "N", "L", "W"}))
            \/ StringAt(e, cur + 1, 1, {"Z"})
         THEN Fire(Add2("S", "X"),
                   IF StringAt(e, cur + 1, 1, {"Z"}) THEN 2 ELSE 1)
    ELSE IF StringAt(e, cur, 2, {"SC"}) THEN CaseSC(e, cur)
    ELSE Fire(IF cur = e.last /\ StringAt(e, cur - 2, 2, {"AI", "OI"})
              THEN Add2("", "S")
              ELSE Add("S"),
              IF StringAt(e, cur + 1, 1, {"S", "Z"}) THEN 2 ELSE 1)

CaseT(e, cur) ==
    IF StringAt(e, cur, 4, {"TION"}) THEN Fire(Add("X"), 3)
    ELSE IF StringAt(e, cur, 3, {"TIA", "TCH"}) THEN Fire(Add("X"), 3)
    ELSE IF StringAt(e, cur, 2, {"TH"}) \/ StringAt(e, cur, 3, {"TTH"})
         THEN IF StringAt(e, cur + 2, 2, {"OM", "AM"})
                 \/ StringAt(e, 0, 4, {"VAN ", "VON "})
                 \/ StringAt(e, 0, 3, {"SCH"})
              THEN Fire(Add("T"), 2)
              ELSE Fire(Add2("0", "T"), 2)
    ELSE IF StringAt(e, cur + 1, 1, {"T", "D"}) THEN Fire(Add("T"), 2)
    ELSE Fire(Add("T"), 1)

CaseV(e, cur) ==
    IF GetAt(e, cur + 1) = "V" THEN Fire(Add("F"), 2) ELSE Fire(Add("F"), 1)

\* case 'W', the MetaphAdd of lines 702-711, which does not leave the case.
AddsW(e, cur) ==
    IF cur = 0 /\ (IsVowel(e, cur + 1) \/ StringAt(e, cur, 2, {"WH"}))
    THEN IF IsVowel(e, cur + 1) THEN Add2("A", "F") ELSE Add("A")
    ELSE None

CaseW(e, cur) ==
    IF StringAt(e, cur, 2, {"WR"}) THEN Fire(Add("R"), 2)
    ELSE IF (cur = e.last /\ IsVowel(e, cur - 1))
            \/ StringAt(e, cur - 1, 5, {"EWSKI", "EWSKY", "OWSKI", "OWSKY"})
            \/ StringAt(e, 0, 3, {"SCH"})
         THEN Fire(AddsW(e, cur) \o Add2("", "F"), 1)
    ELSE IF StringAt(e, cur, 4, {"WICZ", "WITZ"})
         THEN Fire(AddsW(e, cur) \o Add2("TS", "FX"), 4)
    ELSE Fire(AddsW(e, cur), 1)

CaseX(e, cur) ==
    Fire(IF ~(cur = e.last
              /\ (StringAt(e, cur - 3, 3, {"IAU", "EAU"})
                  \/ StringAt(e, cur - 2, 2, {"AU", "OU"})))
         THEN Add("KS")
         ELSE None,
         IF StringAt(e, cur + 1, 1, {"C", "X"}) THEN 2 ELSE 1)

CaseZ(e, cur) ==
    IF GetAt(e, cur + 1) = "H" THEN Fire(Add("J"), 2)
    ELSE Fire(IF StringAt(e, cur + 1, 2, {"ZO", "ZI", "ZA"})
                 \/ (SlavoGermanic(e) /\ (cur > 0 /\ GetAt(e, cur - 1) # "T"))
              THEN Add2("S", "TS")
              ELSE Add("S"),
              IF GetAt(e, cur + 1) = "Z" THEN 2 ELSE 1)

\* Mutant of CaseDefault: an unrecognized character does not move the cursor.
CaseDefaultStuck(e, cur) == Fire(None, 0)

CaseDefault(e, cur) == Fire(None, 1)

\* switch GetAt(current): the case taken at the cursor.
Switch(e, cur) ==
    LET c == GetAt(e, cur) IN
    CASE c \in {"A", "E", "I", "O", "U", "Y"} -> CaseVowel(e, cur)
      [] c = "B" -> CaseB(e, cur)
      [] c = "Ç" -> CaseCCedilla(e, cur)
      [] c = "C" -> CaseC(e, cur)
      [] c = "D" -> CaseD(e, cur)
      [] c = "F" -> CaseF(e, cur)
      [] c = "G" -> CaseG(e, cur)
      [] c = "H" -> CaseH(e, cur)
      [] c = "J" -> CaseJ(e, cur)
      [] c = "K" -> CaseK(e, cur)
      [] c = "L" -> CaseL(e, cur)
      [] c = "M" -> CaseM(e, cur)
      [] c = "N" -> CaseN(e, cur)
      [] c = "Ñ" -> CaseNTilde(e, cur)
      [] c = "P" -> CaseP(e, cur)
      [] c = "Q" -> CaseQ(e, cur)
      [] c = "R" -> CaseR(e, cur)
      [] c = "S" -> CaseS(e, cur)
      [] c = "T" -> CaseT(e, cur)
      [] c = "V" -> CaseV(e, cur)
      [] c = "W" -> CaseW(e, cur)
      [] c = "X" -> CaseX(e, cur)
      [] c = "Z" -> CaseZ(e, cur)
      [] OTHER -> CaseDefault(e, cur)

(***************************************************************************)
(* The pass: MetaphAdd, the initial skips, the main loop, the return.      *)
(***************************************************************************)
Begin ==
    [current |-> 0, primary |-> "", secondary |-> "", alternate |-> FALSE,
     panicked |-> FALSE, paired |-> FALSE]

\* MetaphAdd(s ...string), args being the argument list.
MetaphAdd(s, args) ==
    IF Len(args) < 1 \/ Len(args) > 2 THEN [s EXCEPT !.panicked = TRUE]
    ELSE LET main == args[1] IN
         IF Len(args) = 1
         THEN [s EXCEPT !.primary = @ \o main, !.secondary = @ \o main]
         ELSE LET alt == args[2] IN
              IF Len(alt) > 0
              THEN [s EXCEPT !.primary = @ \o main,
                             !.alternate = TRUE,
                             !.paired = TRUE,
                             !.secondary =
                                 IF SubSeq(alt, 1, 1) # " " THEN @ \o alt ELSE @]
              ELSE [s EXCEPT !.primary = @ \o main,
                             !.paired = TRUE,
                             !.secondary =
                                 IF Len(main) > 0 /\ SubSeq(main, 1, 1) # " "
                                 THEN @ \o main ELSE @]

RECURSIVE MetaphAddAll(_, _)
\* The MetaphAdd calls of one pass through the switch, in order.
MetaphAddAll(s, adds) ==
    IF adds = << >> \/ s.panicked THEN s
    ELSE MetaphAddAll(MetaphAdd(s, Head(adds)), Tail(adds))

\* Mutant of SkipInitial: "PN" is missing from the list.
SkipInitialWithoutPN(e, s) ==
    IF StringAt(e, 0, 2, {"GN", "KN", "WR", "PS"})
    THEN [s EXCEPT !.current = @ + 1]
    ELSE s

\* Lines 135-137: skip these when at start of word.
SkipInitial(e, s) ==
    IF StringAt(e, 0, 2, {"GN", "KN", "PN", "WR", "PS"})
    THEN [s EXCEPT !.current = @ + 1]
    ELSE s

\* Lines 140-143: initial 'X' is pronounced 'Z'.
InitialX(e, s) ==
    IF GetAt(e, 0) = "X"
    THEN [MetaphAdd(s, <<"S">>) EXCEPT !.current = @ + 1]
    ELSE s

\* Mutant of LoopCond: the loop stops when either buffer is full.
LoopCondEither(e, s, L) ==
    /\ ~s.panicked
    /\ s.current < e.length
    /\ (Len(s.primary) < L /\ Len(s.secondary) < L)

\* The loop condition of lines 146-147.
LoopCond(e, s, L) ==
    /\ ~s.panicked
    /\ s.current < e.length
    /\ (Len(s.primary) < L \/ Len(s.secondary) < L)

\* One iteration of the main loop.
LoopBody(e, s) ==
    LET f == Switch(e, s.current)
    IN  [MetaphAddAll(s, f.adds) EXCEPT !.current = @ + f.adv]

RECURSIVE MainLoop(_, _, _)
MainLoop(e, s, L) ==
    IF LoopCond(e, s, L) THEN MainLoop(e, LoopBody(e, s), L) ELSE s

\* Mutant of Truncate: the results are returned as accumulated.
TruncateNot(m, L) == m

\* metaph[:maxlength] when len(metaph) > maxlength.
Truncate(m, L) == IF Len(m) > L THEN SubSeq(m, 1, L) ELSE m

\* metaph[:maxlength] panics for a negative maxlength.
SlicePanics(m, L) == Len(m) > L /\ L < 0

\* Mutant of Results: the secondary buffer is returned whatever the flag.
ResultsUnguarded(s, L) == <<Truncate(s.primary, L), Truncate(s.secondary, L)>>

\* Lines 769-781: the two results.
Results(s, L) ==
    <<Truncate(s.primary, L),
      IF s.alternate THEN Truncate(s.secondary, L) ELSE "">>

\* DoubleMetaphone(word, maxlength) as a function of its arguments.
DoubleMetaphone(w, L) ==
    IF EmptyWord(w) THEN <<"", "">>
    ELSE LET e == Env(w)
             s == MainLoop(e, InitialX(e, SkipInitial(e, Begin)), Coerce(L))
         IN  Results(s, Coerce(L))

(***************************************************************************)
(* The words and lengths the calls are made with.                          *)
(***************************************************************************)
\* The longest word drawn from Alphabet, and the alphabet: letters in both
\* cases whose rules emit nothing, one token, two tokens and a divergent
\* pair, a blank, and code points whose case mapping changes their size.
MaxWordLen == 3

Alphabet == {"a", "i", "S", "s", "J", "X", "ç", " ", LongS, KelvinSign}

RECURSIVE WordsUpTo(_)
WordsUpTo(n) ==
    IF n = 0 THEN {<< >>}
    ELSE LET shorter == WordsUpTo(n - 1)
         IN  shorter \cup {Append(w, c) : w \in shorter, c \in Alphabet}

\* Words of the README, the doc comments, the test and the rule comments.
ReferenceWords ==
    {Runes(w) : w \in
        {"knewmoanya", "pneumonia", "knewmoania", "Pneumonia", "KNEWMOANYA",
         "caesar", "chianti", "michael", "chemistry", "chorus", "architect",
         "orchestra", "wachtler", "McHugh", "czerny", "focaccia", "accident",
         "succeed", "bellocchio", "bacchus", "mac caffrey", "edge", "edgar",
         "ghislane", "hugh", "bough", "broughton", "laugh", "cagney",
         "tagliaro", "danger", "biaggi", "rogier", "jose", "san jacinto",
         "Jankelowicz", "bajador", "cabrillo", "gallegos", "dumb", "thumb",
         "campbell", "hochmeier", "island", "carlisle", "sugar", "smith",
         "schmidt", "school", "schermerhorn", "resnais", "artois", "thomas",
         "Wasserman", "Womo", "Arnow", "filipowicz", "breaux", "zhao",
         "Xavier", "O'Neil", "x-ray 2"}}

Words == ReferenceWords \cup WordsUpTo(MaxWordLen)

MaxLengths == {-1, 0, 1, 2, 4, 6}

(***************************************************************************)
(* One call of DoubleMetaphone, statement by statement.                    *)
(***************************************************************************)
Local ==
    [current |-> current, primary |-> primary, secondary |-> secondary,
     alternate |-> alternate, panicked |-> panicked, paired |-> paired]

Environment == [rword |-> rword, length |-> length, last |-> last]

Store(s) ==
    /\ current' = s.current
    /\ primary' = s.primary
    /\ secondary' = s.secondary
    /\ alternate' = s.alternate
    /\ panicked' = s.panicked
    /\ paired' = s.paired

InitMap ==
    /\ wordlist = << >>
    /\ maxLen = 0
    /\ built = 0
    /\ mpc = "idle"
    /\ mapper = << >>
    /\ maxlen = 0
    /\ call = << >>

InitCall ==
    /\ pc = "entry"
    /\ maxlength = maxlengthArg
    /\ length = 0
    /\ last = -1
    /\ rword = << >>
    /\ current = 0
    /\ primary = ""
    /\ secondary = ""
    /\ alternate = FALSE
    /\ metaph = ""
    /\ metaph2 = ""
    /\ panicked = FALSE
    /\ paired = FALSE
    /\ iters = 0

\* No caller is making calls side by side.
NoPair == dm = << >>

Init ==
    /\ word \in Words
    /\ maxlengthArg \in MaxLengths
    /\ InitCall
    /\ InitMap
    /\ NoPair

\* Lines 48-66: the early return, the coercion of maxlength, the padding.
DMEnter ==
    /\ pc = "entry"
    /\ length' = ByteLen(word)
    /\ IF EmptyWord(word)
       THEN /\ pc' = "done"
            /\ UNCHANGED <<maxlength, last, rword>>
       ELSE /\ pc' = "skip"
            /\ maxlength' = Coerce(maxlength)
            /\ last' = Env(word).last
            /\ rword' = Env(word).rword
    /\ Store(Begin)
    /\ UNCHANGED <<word, maxlengthArg, metaph, metaph2, iters, mapVars, pairVars>>

\* Lines 135-137.
DMSkipInitial ==
    /\ pc = "skip"
    /\ pc' = "initx"
    /\ Store(SkipInitial(Environment, Local))
    /\ UNCHANGED <<word, maxlengthArg, maxlength, length, last, rword,
                   metaph, metaph2, iters, mapVars, pairVars>>

\* Lines 140-143.
DMInitialX ==
    /\ pc = "initx"
    /\ pc' = "loop"
    /\ Store(InitialX(Environment, Local))
    /\ UNCHANGED <<word, maxlengthArg, maxlength, length, last, rword,
                   metaph, metaph2, iters, mapVars, pairVars>>

\* Lines 146-767: one iteration of the main loop.
DMLoop ==
    /\ pc = "loop"
    /\ LoopCond(Environment, Local, maxlength)
    /\ Store(LoopBody(Environment, Local))
    /\ iters' = iters + 1
    /\ UNCHANGED <<word, maxlengthArg, maxlength, pc, length, last, rword,
                   metaph, metaph2, mapVars, pairVars>>

\* Lines 769-781: the loop has ended.  A slice that panics ends the call.
DMReturn ==
    /\ pc = "loop"
    /\ ~LoopCond(Environment, Local, maxlength)
    /\ IF panicked
          \/ SlicePanics(primary, maxlength)
          \/ (alternate /\ SlicePanics(secondary, maxlength))
       THEN /\ pc' = "panic"
            /\ UNCHANGED <<metaph, metaph2>>
       ELSE /\ pc' = "done"
            /\ metaph' = Results(Local, maxlength)[1]
            /\ metaph2' = Results(Local, maxlength)[2]
    /\ UNCHANGED <<word, maxlengthArg, maxlength, length, last, rword,
                   current, primary, secondary, alternate, panicked, paired,
                   iters, mapVars, pairVars>>

Next == DMEnter \/ DMSkipInitial \/ DMInitialX \/ DMLoop \/ DMReturn

Spec == Init /\ [][Next]_vars

(***************************************************************************)
(* MetaphMap.  A bucket is a Go slice of strings: its backing array arr,   *)
(* of which the first len elements are the slice; cap is Len(arr).  Each   *)
(* bucket has a backing array of its own.                                  *)
(***************************************************************************)
\* The zero value of a string, as a word.
ZeroString == << >>

\* A nil slice.
NilSlice == [arr |-> << >>, len |-> 0]

\* The capacity append gives a slice it has to grow (runtime growslice, for
\* capacities below 256; the sizes reached here are allocation size classes).
GrowCap(oldCap, newLen) ==
    IF newLen > 2 * oldCap THEN newLen ELSE 2 * oldCap

\* Mutant of AppendWord: a word the bucket already holds is not added.
AppendWordOnce(b, w) ==
    IF \E i \in 1..b.len : b.arr[i] = w THEN b
    ELSE IF b.len < Len(b.arr)
    THEN [arr |-> [b.arr EXCEPT ![b.len + 1] = w], len |-> b.len + 1]
    ELSE [arr |-> [i \in 1..GrowCap(Len(b.arr), b.len + 1) |->
                      IF i <= b.len THEN b.arr[i]
                      ELSE IF i = b.len + 1 THEN w ELSE ZeroString],
          len |-> b.len + 1]

\* append(b, w): in place when the capacity allows, else into a new array.
AppendWord(b, w) ==
    IF b.len < Len(b.arr)
    THEN [arr |-> [b.arr EXCEPT ![b.len + 1] = w], len |-> b.len + 1]
    ELSE [arr |-> [i \in 1..GrowCap(Len(b.arr), b.len + 1) |->
                      IF i <= b.len THEN b.arr[i]
                      ELSE IF i = b.len + 1 THEN w ELSE ZeroString],
          len |-> b.len + 1]

\* MMap[k], the nil slice for a missing key.
MapGet(mp, k) == IF k \in DOMAIN mp THEN mp[k] ELSE NilSlice

\* MMap[k] = b
MapPut(mp, k, b) ==
    [x \in DOMAIN mp \cup {k} |-> IF x = k THEN b ELSE mp[x]]

\* Mutant of Indexed: the empty code is indexed too.
IndexedAlways(c) == TRUE

\* len(m) > 0: only a non-empty code is a key.
Indexed(c) == Len(c) > 0

\* Lines 35-40: if len(m) > 0 { MMap[m] = append(MMap[m], word) }
AddWord(mp, c, w) ==
    IF Indexed(c) THEN MapPut(mp, c, AppendWord(MapGet(mp, c), w)) ELSE mp

\* The words of a bucket, in order.
Elements(b) == SubSeq(b.arr, 1, b.len)

\* The callers of MatchWord and Len.
Callers == {1, 2}

\* How many calls of MatchWord each caller makes.
MaxCalls == 2

\* A slice held by a caller: a bucket's backing array (shared, of key) or
\* an array of the caller's own (arr).
NilOutput == [shared |-> FALSE, key |-> "", arr |-> << >>, len |-> 0]

IdleFrame ==
    [pc |-> "idle", word |-> << >>, m |-> "", m2 |-> "",
     output |-> NilOutput, i |-> 0, seen |-> {}, out |-> << >>,
     calls |-> 0, size |-> -1]

\* output = metaph.mapper[m]: the slice header of the bucket, not a copy.
SliceOf(k) ==
    IF k \in DOMAIN mapper
    THEN [shared |-> TRUE, key |-> k, arr |-> << >>, len |-> mapper[k].len]
    ELSE NilOutput

Cap(o) == IF o.shared THEN Len(mapper[o.key].arr) ELSE Len(o.arr)

Elem(o, i) == IF o.shared THEN mapper[o.key].arr[i] ELSE o.arr[i]

\* Mutant of QueryCodes: the query is encoded at the default length.
QueryCodesDefault(q) == DoubleMetaphone(q, DefaultMaxLength)

\* Line 101: m, m2 := DoubleMetaphone(word, metaph.maxlen)
QueryCodes(q) == DoubleMetaphone(q, maxlen)

\* The orders in which ranging over a Go map may yield the keys S.
Orders(S) ==
    {f \in [1..Cardinality(S) -> S] : {f[i] : i \in 1..Cardinality(S)} = S}

(***************************************************************************)
(* The word lists, lengths and queries the MetaphMap is used with.         *)
(***************************************************************************)
MaxWords == 3

\* "ALLELA" at length 2 has the codes ("AL", "AL"): its first L is emitted
\* to the primary code only, its second L to both.
MapPool == {Runes(w) : w \in {"J", "ZH", "GE", "ALLELA", "knewmoania"}}

Queries == {Runes(w) : w \in {"J", "GE", "H", "knewmoanya"}}

MapLengths == {0, 2, 4}

RECURSIVE ListsUpTo(_, _)
ListsUpTo(pool, n) ==
    IF n = 0 THEN {<< >>}
    ELSE LET shorter == ListsUpTo(pool, n - 1)
         IN  shorter \cup {Append(l, w) : l \in shorter, w \in pool}

WordLists == ListsUpTo(MapPool, MaxWords)

\* What two callers sharing a MetaphMap are given: lists long enough for a
\* bucket of three words, which has capacity four, and two queries with the
\* same primary code and different secondary codes.
MaxSharedWords == 4

SharedPool == {Runes(w) : w \in {"ZH", "GE", "AJ"}}

SharedQueries == {Runes(w) : w \in {"J", "GE"}}

SharedLengths == {4}

SharedLists == ListsUpTo(SharedPool, MaxSharedWords)

MaxSharedCalls == 1

\* No call of DoubleMetaphone is traced while the MetaphMap is modelled.
NoCall ==
    /\ word = << >>
    /\ maxlengthArg = 0
    /\ InitCall

InitNew(lists, lengths) ==
    /\ wordlist \in lists
    /\ maxLen \in lengths
    /\ built = 0
    /\ mpc = "build"
    /\ mapper = << >>
    /\ maxlen = 0
    /\ call = [t \in Callers |-> IdleFrame]
    /\ NoCall
    /\ NoPair

\* NewMetaphMap, lines 33-41: one iteration of the loop over wordlist.
NMStep ==
    /\ mpc = "build"
    /\ built < Len(wordlist)
    /\ LET w == wordlist[built + 1]
           r == DoubleMetaphone(w, maxLen)
       IN  mapper' = AddWord(AddWord(mapper, r[1], w), r[2], w)
    /\ built' = built + 1
    /\ UNCHANGED <<wordlist, maxLen, mpc, maxlen, call, encVars, pairVars>>

\* NewMetaphMap, lines 42-45: the MetaphMap is returned.
NMReturn ==
    /\ mpc = "build"
    /\ built = Len(wordlist)
    /\ mpc' = "ready"
    /\ maxlen' = maxLen
    /\ UNCHANGED <<wordlist, maxLen, built, mapper, call, encVars, pairVars>>

Frame(t, f) == call' = [call EXCEPT ![t] = f]

\* MatchWord, line 101.
MWCall(t, q, n) ==
    /\ mpc = "ready"
    /\ call[t].pc \in {"idle", "done"}
    /\ call[t].calls < n
    /\ LET r == QueryCodes(q)
       IN  Frame(t, [IdleFrame EXCEPT !.pc = "primary",
                                      !.word = q,
                                      !.m = r[1],
                                      !.m2 = r[2],
                                      !.calls = call[t].calls + 1,
                                      !.size = call[t].size])
    /\ UNCHANGED <<wordlist, maxLen, built, mpc, mapper, maxlen, encVars, pairVars>>

\* MatchWord, lines 102-104.
MWPrimary(t) ==
    /\ call[t].pc = "primary"
    /\ Frame(t, [call[t] EXCEPT
                    !.pc = "append",
                    !.output = IF Len(call[t].m) > 0
                               THEN SliceOf(call[t].m) ELSE NilOutput])
    /\ UNCHANGED <<wordlist, maxLen, built, mpc, mapper, maxlen, encVars, pairVars>>

\* MatchWord, lines 105-107: append(output, metaph.mapper[m2]...) either
\* finds room in the backing array of output, and then copies into it
\* (MWCopy), or allocates an array for the caller.  Appending nothing
\* returns output as it is.
MWAppend(t) ==
    /\ call[t].pc = "append"
    /\ LET f == call[t]
           o == f.output
           src == MapGet(mapper, f.m2)
       IN  IF Len(f.m2) = 0 \/ src.len = 0
           THEN Frame(t, [f EXCEPT !.pc = "range", !.i = 0])
           ELSE IF o.len + src.len <= Cap(o)
           THEN Frame(t, [f EXCEPT !.pc = "copy", !.i = 0])
           ELSE Frame(t, [f EXCEPT
                    !.pc = "range",
                    !.i = 0,
                    !.output =
                        [shared |-> FALSE, key |-> "",
                         arr |-> [i \in 1..(o.len + src.len) |->
                                     IF i <= o.len THEN Elem(o, i)
                                     ELSE src.arr[i - o.len]],
                         len |-> o.len + src.len]])
    /\ UNCHANGED <<wordlist, maxLen, built, mpc, mapper, maxlen, encVars, pairVars>>

\* Mutant of CopyInto: the longer slice is stored back in the map, as by
\* metaph.mapper[m] = append(metaph.mapper[m], ...).
CopyIntoAndStore(mp, o, i, w) ==
    [mp EXCEPT ![o.key].arr[o.len + i + 1] = w, ![o.key].len = o.len + i + 1]

\* append in place writes element i of its source behind the last element
\* of output, in the backing array output shares with the bucket; the
\* bucket's own slice header, in the map, keeps its length.
CopyInto(mp, o, i, w) ==
    [mp EXCEPT ![o.key].arr[o.len + i + 1] = w]

\* append in place: one element is copied into the backing array of the
\* primary bucket, behind its last element; after the last one the slice
\* returned by append is assigned to output.
MWCopy(t) ==
    /\ call[t].pc = "copy"
    /\ LET f == call[t]
           o == f.output
           src == mapper[f.m2]
       IN  /\ mapper' = CopyInto(mapper, o, f.i, src.arr[f.i + 1])
           /\ IF f.i + 1 < src.len
              THEN Frame(t, [f EXCEPT !.i = f.i + 1])
              ELSE Frame(t, [f EXCEPT !.pc = "range",
                                      !.i = 0,
                                      !.output.len = o.len + src.len])
    /\ UNCHANGED <<wordlist, maxLen, built, mpc, maxlen, encVars, pairVars>>

\* removeDups, lines 115-117: one iteration of the loop over output.
MWRange(t) ==
    /\ call[t].pc = "range"
    /\ call[t].i < call[t].output.len
    /\ Frame(t, [call[t] EXCEPT
                    !.i = call[t].i + 1,
                    !.seen = @ \cup {Elem(call[t].output, call[t].i + 1)}])
    /\ UNCHANGED <<wordlist, maxLen, built, mpc, mapper, maxlen, encVars, pairVars>>

\* removeDups, lines 118-121, and the return of MatchWord: the keys of the
\* map m, in the order the range over it yields them.
MWReturn(t) ==
    /\ call[t].pc = "range"
    /\ call[t].i = call[t].output.len
    /\ \E order \in Orders(call[t].seen) :
          Frame(t, [call[t] EXCEPT !.pc = "done", !.out = order])
    /\ UNCHANGED <<wordlist, maxLen, built, mpc, mapper, maxlen, encVars, pairVars>>

\* Len, lines 83-85.
MLen(t) ==
    /\ mpc = "ready"
    /\ call[t].pc \in {"idle", "done"}
    /\ Frame(t, [call[t] EXCEPT !.size = Cardinality(DOMAIN mapper)])
    /\ UNCHANGED <<wordlist, maxLen, built, mpc, mapper, maxlen, encVars, pairVars>>

Caller(t, queries, n) ==
    \/ \E q \in queries : MWCall(t, q, n)
    \/ MWPrimary(t)
    \/ MWAppend(t)
    \/ MWCopy(t)
    \/ MWRange(t)
    \/ MWReturn(t)
    \/ MLen(t)

\* One caller: the calls on the MetaphMap follow one another.
NextMap == NMStep \/ NMReturn \/ Caller(1, Queries, MaxCalls)

SpecMap == InitNew(WordLists, MapLengths) /\ [][NextMap]_vars

\* Two callers share the MetaphMap, without synchronization.
NextShared ==
    \/ NMStep
    \/ NMReturn
    \/ \E t \in Callers : Caller(t, SharedQueries, MaxSharedCalls)

SpecShared == InitNew(SharedLists, SharedLengths) /\ [][NextShared]_vars

(***************************************************************************)
(* Calls of DoubleMetaphone made side by side by several callers.  All the *)
(* state of a call is in its parameters, results, locals and closures over *)
(* the locals, that is in the frame of the call.                           *)
(***************************************************************************)
\* How many calls each caller makes, and what the calls are given.
MaxPairCalls == 2

PairWords == {Runes(w) : w \in {"", "Xs", "aJ"}}

PairLengths == {0, 1}

\* The frame of a caller that has made no call; returns is the history of
\* what its calls were given and returned.
IdleCall ==
    [pc |-> "idle", word |-> << >>, arg |-> 0, maxlength |-> 0,
     e |-> [rword |-> << >>, length |-> 0, last |-> -1], s |-> Begin,
     metaph |-> "", metaph2 |-> "", calls |-> 0, returns |-> {}]

\* Mutant of NewLocals: primary and secondary outlive the call, as builders
\* declared outside the function would.
KeptLocals(old) ==
    [Begin EXCEPT !.primary = old.primary, !.secondary = old.secondary]

\* Lines 56-66: current, primary, secondary and alternate are declared in
\* the function, so every call starts with its own.
NewLocals(old) == Begin

InitPair ==
    /\ dm = [t \in Callers |-> IdleCall]
    /\ InitMap
    /\ NoCall

Pair(t, f) ==
    /\ dm' = [dm EXCEPT ![t] = f]
    /\ UNCHANGED <<encVars, mapVars>>

\* The call has returned (m, m2).
Return(f, m, m2) ==
    [f EXCEPT !.pc = "done", !.metaph = m, !.metaph2 = m2,
              !.returns = @ \cup {<<f.word, f.arg, m, m2>>}]

\* Line 45: the call, the results being zero.
PCall(t) ==
    /\ dm[t].pc \in {"idle", "done"}
    /\ dm[t].calls < MaxPairCalls
    /\ \E w \in PairWords, L \in PairLengths :
          Pair(t, [dm[t] EXCEPT !.pc = "entry", !.word = w, !.arg = L,
                                !.maxlength = L, !.metaph = "",
                                !.metaph2 = "", !.calls = @ + 1])

\* Lines 48-66.
PEnter(t) ==
    /\ dm[t].pc = "entry"
    /\ LET f == dm[t] IN
       IF EmptyWord(f.word)
       THEN Pair(t, Return(f, "", ""))
       ELSE Pair(t, [f EXCEPT !.pc = "skip",
                              !.maxlength = Coerce(f.maxlength),
                              !.e = Env(f.word),
                              !.s = NewLocals(f.s)])

\* Lines 135-137.
PSkipInitial(t) ==
    /\ dm[t].pc = "skip"
    /\ Pair(t, [dm[t] EXCEPT !.pc = "initx",
                             !.s = SkipInitial(dm[t].e, dm[t].s)])

\* Lines 140-143.
PInitialX(t) ==
    /\ dm[t].pc = "initx"
    /\ Pair(t, [dm[t] EXCEPT !.pc = "loop",
                             !.s = InitialX(dm[t].e, dm[t].s)])

\* Lines 146-767: one iteration of the main loop.
PLoop(t) ==
    /\ dm[t].pc = "loop"
    /\ LoopCond(dm[t].e, dm[t].s, dm[t].maxlength)
    /\ Pair(t, [dm[t] EXCEPT !.s = LoopBody(dm[t].e, dm[t].s)])

\* Lines 769-781.
PReturn(t) ==
    /\ dm[t].pc = "loop"
    /\ LET f == dm[t] IN
       /\ ~LoopCond(f.e, f.s, f.maxlength)
       /\ IF f.s.panicked
             \/ SlicePanics(f.s.primary, f.maxlength)
             \/ (f.s.alternate /\ SlicePanics(f.s.secondary, f.maxlength))
          THEN Pair(t, [f EXCEPT !.pc = "panic"])
          ELSE Pair(t, Return(f, Results(f.s, f.maxlength)[1],
                                 Results(f.s, f.maxlength)[2]))

PStep(t) ==
    \/ PCall(t)
    \/ PEnter(t)
    \/ PSkipInitial(t)
    \/ PInitialX(t)
    \/ PLoop(t)
    \/ PReturn(t)

NextPair == \E t \in Callers : PStep(t)

SpecPair == InitPair /\ [][NextPair]_vars

(***************************************************************************)
(* Properties of DoubleMetaphone, checked under Spec.                      *)
(***************************************************************************)
Done == pc = "done"

Returned == <<metaph, metaph2>>

\* C1: for every word and every maxLength L >= 1, both returned codes have
\* length at most L, although the buffers may have grown past L.
LengthBound ==
    (Done /\ maxlengthArg >= 1) =>
        /\ Len(metaph) <= maxlengthArg
        /\ Len(metaph2) <= maxlengthArg

\* A call with L >= 1 whose two buffers both grew past L and were cut to L.
LengthBoundWitness ==
    /\ Done
    /\ maxlengthArg >= 1
    /\ alternate
    /\ Len(primary) > maxlengthArg
    /\ Len(secondary) > maxlengthArg
    /\ Len(metaph) = maxlengthArg
    /\ Len(metaph2) = maxlengthArg

\* C2: the returned secondary code is non-empty only if some rule fired
\* with a divergent pair, which set the alternate flag; when no rule fired
\* with a pair the secondary code is empty whatever the secondary buffer
\* holds.
SecondaryEmptiness ==
    Done =>
        /\ (metaph2 # "" => (paired /\ alternate))
        /\ (~paired => metaph2 = "")

\* A call in which no pair was emitted, the secondary buffer is not empty
\* and the secondary code returned is empty.
SecondaryEmptinessWitness ==
    /\ Done
    /\ ~paired
    /\ secondary # ""
    /\ metaph2 = ""

\* C3: "knewmoanya" and "pneumonia" both give primary "NMN" and an empty
\* secondary, at maxLength 4 and at maxLength 6, and no rule fires with a
\* pair for either word.
ReferenceVectors ==
    (/\ Done
     /\ word \in {Runes("knewmoanya"), Runes("pneumonia")}
     /\ maxlengthArg \in {4, 6}) =>
        /\ metaph = "NMN"
        /\ metaph2 = ""
        /\ ~paired

\* The call DoubleMetaphone("pneumonia", 6) has returned "NMN".
ReferenceVectorsWitness ==
    /\ Done
    /\ word = Runes("pneumonia")
    /\ maxlengthArg = 6
    /\ metaph = "NMN"
    /\ iters > 0

\* C4: DoubleMetaphone(w, L), DoubleMetaphone(uppercase(w), L) and
\* DoubleMetaphone(lowercase(w), L) return the same pair of codes.
CaseInsensitive ==
    Done =>
        /\ Returned = DoubleMetaphone(ToUpper(word), maxlengthArg)
        /\ Returned = DoubleMetaphone(ToLower(word), maxlengthArg)

\* C5: DoubleMetaphone("", L) returns ("", "") for every L, L < 1 included,
\* at once: the call never reaches the initial skips or the rule loop.
EmptyInput ==
    (word = << >>) =>
        /\ pc \in {"entry", "done"}
        /\ iters = 0
        /\ Returned = <<"", "">>

\* The call DoubleMetaphone("", L) with L < 1 has returned.
EmptyInputWitness ==
    /\ Done
    /\ word = << >>
    /\ maxlengthArg < 1
    /\ Returned = <<"", "">>

\* C6: for every word and every maxLength L < 1 the call returns what
\* DoubleMetaphone(w, 4) returns, and does not panic.
InvalidMaxLength ==
    (maxlengthArg < 1) =>
        /\ pc # "panic"
        /\ Done => Returned = DoubleMetaphone(word, 4)

\* A call with L < 1 returned a code of 4 characters cut from a longer
\* buffer.
InvalidMaxLengthWitness ==
    /\ Done
    /\ maxlengthArg < 1
    /\ Len(primary) > 4
    /\ Len(metaph) = 4

(***************************************************************************)
(* Further properties of DoubleMetaphone, checked under Spec.              *)
(***************************************************************************)
\* unicode.IsLetter, on the characters the model draws words from.
IsLetter(c) ==
    \/ c \in DOMAIN UpperOfLower
    \/ c \in DOMAIN LowerOfUpper
    \/ c \in TwoByteRunes \cup ThreeByteRunes

\* The word without its non-alphabetic characters.
Letters(w) == SelectSeq(w, IsLetter)

\* C11: DoubleMetaphone(w, L) returns what it returns for w with every
\* non-alphabetic character (digit, punctuation, blank) removed.
NonAlphabeticIgnored ==
    Done => Returned = DoubleMetaphone(Letters(word), maxlengthArg)

\* C12: the call never panics: MetaphAdd is never called with zero or more
\* than two tokens, maxlength is at least 1 once coerced, no result is
\* sliced beyond its length, and a cursor past the end of rword reads
\* rune(0).
NeverFails ==
    /\ pc # "panic"
    /\ ~panicked
    /\ pc \notin {"entry", "done"} =>
          /\ maxlength >= 1
          /\ ~SlicePanics(primary, maxlength)
          /\ ~SlicePanics(secondary, maxlength)
          /\ current >= Len(rword) => GetAt(Environment, current) = NUL

\* A call with maxLength < 1 has returned after its cursor went past the
\* end of rword, padding included.
NeverFailsWitness ==
    /\ Done
    /\ maxlengthArg < 1
    /\ iters > 0
    /\ current > Len(rword)

\* C14, as claimed: the cursor never decreases, and when the pass ends it is
\* at or beyond the number of characters of the word.
CursorReachesEnd ==
    /\ [][current' >= current]_vars
    /\ [](Done => current >= Len(word))

\* C14, amended: the cursor never decreases, and when the pass ends either
\* it is at or beyond the number of characters of the word or both buffers
\* hold maxlength characters or more.
CursorMonotonic ==
    /\ [][current' >= current]_vars
    /\ [](Done =>
            \/ current >= Len(word)
            \/ (Len(primary) >= maxlength /\ Len(secondary) >= maxlength))

\* A pass has ended before the end of the word, both buffers being full,
\* the secondary one after the primary one.
CursorMonotonicWitness ==
    /\ Done
    /\ iters >= 2
    /\ current < Len(word)
    /\ Len(primary) > maxlength
    /\ Len(secondary) = maxlength

\* C16: every iteration of the main loop moves the cursor forward by 1 to 4
\* places, and the loop makes at most len(word) iterations.
LoopProgress ==
    /\ [][iters' # iters => (current' - current) \in 1..4]_vars
    /\ [](iters <= ByteLen(word))

\* A pass of two or more iterations has ended, over a word with a blank, a
\* rule having moved the cursor by more than one place.
LoopProgressWitness ==
    /\ Done
    /\ iters >= 2
    /\ current > iters + 1
    /\ \E i \in 1..Len(word) : word[i] = " "

\* C18: length is the number of characters of the word and last the index
\* of its final character in rword, and the loop body runs only with the
\* cursor on a character of the word.
LengthInCharacters ==
    pc \notin {"entry"} =>
        /\ length = Len(word)
        /\ word # << >> => last = Len(word) - 1
        /\ (pc = "loop" /\ LoopCond(Environment, Local, maxlength))
               => current < Len(word)


(***************************************************************************)
(* Properties of MetaphMap, checked under SpecMap (one caller) and         *)
(* SpecShared (two callers).                                               *)
(***************************************************************************)
Ready == mpc = "ready"

\* NewMetaphMap has returned and MatchWord has not been called yet.
Fresh == Ready /\ \A t \in Callers : call[t].calls = 0

Range(s) == {s[i] : i \in 1..Len(s)}

NoDuplicates(s) == \A i, j \in 1..Len(s) : i # j => s[i] # s[j]

Occurrences(s, w) == Cardinality({i \in 1..Len(s) : s[i] = w})

\* The non-empty codes of a word.
Codes(w, L) ==
    LET r == DoubleMetaphone(w, L) IN {c \in {r[1], r[2]} : c # ""}

\* The words of W that have a non-empty code in common with q.
SoundAlike(W, L, q) ==
    LET cq == Codes(q, L)
    IN  {w \in Range(W) : Codes(w, L) \cap cq # {}}

\* The non-empty codes of the words of W.
AllCodes(W, L) == UNION {Codes(w, L) : w \in Range(W)}

\* How often building the index appends w to the bucket of k: once for
\* each place of W that holds w and each of its two codes that is k.
Stored(W, L, k, w) ==
    LET r == DoubleMetaphone(w, L)
    IN  Occurrences(W, w) * Cardinality({j \in {1, 2} : r[j] = k})

\* Every word of W is in the bucket of each of its non-empty codes.
WordsAreIndexed ==
    \A w \in Range(wordlist) : \A c \in Codes(w, maxLen) :
        c \in DOMAIN mapper /\ w \in Range(Elements(mapper[c]))

\* C7: MatchWord(q) returns, as a set, the words of W that have a
\* non-empty code equal to a non-empty code of q, each once, whatever the
\* order of W; q itself is among them when q is in W and has a non-empty
\* code, and the result is empty when q has no non-empty code.
MatchWordResult ==
    \A t \in Callers :
        call[t].pc = "done" =>
            LET f == call[t] IN
            /\ Range(f.out) = SoundAlike(wordlist, maxLen, f.word)
            /\ NoDuplicates(f.out)
            /\ (f.word \in Range(wordlist) /\ Codes(f.word, maxLen) # {})
                   => f.word \in Range(f.out)
            /\ Codes(f.word, maxLen) = {} => f.out = << >>

\* A second call has returned two or more words, the query among them,
\* from the buckets of both its codes, a duplicate having been removed.
MatchWordResultWitness ==
    /\ call[1].pc = "done"
    /\ call[1].calls = 2
    /\ call[1].m # ""
    /\ call[1].m2 # ""
    /\ call[1].word \in Range(call[1].out)
    /\ Len(call[1].out) >= 2
    /\ call[1].output.len > Len(call[1].out)

\* C8, as claimed: after NewMetaphMap(W, L) returns, every word of W is in
\* the bucket of each of its non-empty codes, and no bucket stores the same
\* word twice.
BucketsWithoutDuplicates ==
    Fresh =>
        /\ WordsAreIndexed
        /\ \A k \in DOMAIN mapper : NoDuplicates(Elements(mapper[k]))

\* C8, amended: after NewMetaphMap(W, L) returns, every word of W is in
\* the bucket of each of its non-empty codes, a bucket holds words of W
\* only, and it stores a word once for each place the word has in W and
\* each of its two codes equal to the key, so that a repeated word, and a
\* word whose two codes are equal after truncation, is stored more than
\* once.
BucketContents ==
    Fresh =>
        /\ WordsAreIndexed
        /\ \A k \in DOMAIN mapper :
               /\ Range(Elements(mapper[k])) \subseteq Range(wordlist)
               /\ \A w \in Range(wordlist) :
                      Occurrences(Elements(mapper[k]), w)
                          = Stored(wordlist, maxLen, k, w)

\* An index built from a list that repeats a word and holds a word, once,
\* whose bucket stores it twice.
BucketContentsWitness ==
    /\ Fresh
    /\ ~NoDuplicates(wordlist)
    /\ \E k \in DOMAIN mapper : \E w \in Range(wordlist) :
          /\ Occurrences(wordlist, w) = 1
          /\ Occurrences(Elements(mapper[k]), w) = 2

\* C9: Len() of NewMetaphMap(W, L) is the number of distinct non-empty
\* codes of the words of W, however many words share a code and however
\* often a word is repeated; the empty code is not a key.
LenIsDistinctCodes ==
    Fresh =>
        /\ "" \notin DOMAIN mapper
        /\ Cardinality(DOMAIN mapper)
               = Cardinality(AllCodes(wordlist, maxLen))
        /\ \A t \in Callers :
               call[t].size # -1 =>
                   call[t].size = Cardinality(AllCodes(wordlist, maxLen))

\* Len() has returned less than the number of words of a list that repeats
\* a word, a word of the list having an empty code.
LenIsDistinctCodesWitness ==
    /\ Fresh
    /\ call[1].size >= 1
    /\ call[1].size < Len(wordlist)
    /\ ~NoDuplicates(wordlist)
    /\ \E w \in Range(wordlist) : DoubleMetaphone(w, maxLen)[2] = ""

\* The words of the bucket of code c; none for the empty code.
Bucket(c) ==
    IF c = "" THEN {} ELSE Range(Elements(MapGet(mapper, c)))

\* C17: once NewMetaphMap has returned, no step of MatchWord or Len changes
\* the keys, the words of a bucket or maxlen; every result of Len() is the
\* number of keys, and every result of MatchWord(q) is the set of words of
\* the buckets of the codes of q, so that repeating a call returns the same.
QueriesKeepIndex ==
    /\ [][Ready =>
             /\ Ready'
             /\ maxlen' = maxlen
             /\ DOMAIN mapper' = DOMAIN mapper
             /\ \A k \in DOMAIN mapper :
                    Elements(mapper'[k]) = Elements(mapper[k])]_vars
    /\ [](\A t \in Callers :
             /\ call[t].size # -1 => call[t].size = Cardinality(DOMAIN mapper)
             /\ call[t].pc = "done" =>
                    Range(call[t].out) = Bucket(call[t].m) \cup Bucket(call[t].m2))

\* A second call of MatchWord has returned, and Len() too, after a call has
\* appended in place: the spare element of a bucket's array holds a word.
QueriesKeepIndexWitness ==
    /\ call[1].pc = "done"
    /\ call[1].calls = 2
    /\ call[1].out # << >>
    /\ call[1].size >= 1
    /\ \E k \in DOMAIN mapper :
          /\ mapper[k].len < Len(mapper[k].arr)
          /\ mapper[k].arr[mapper[k].len + 1] # ZeroString

\* C10: whatever the interleaving of the calls of MatchWord on a shared
\* MetaphMap, each call returns the set it returns when run alone.
SharedCallsReturnTheirSet ==
    \A t \in Callers :
        call[t].pc = "done" =>
            Range(call[t].out)
                = SoundAlike(wordlist, maxLen, call[t].word)

(***************************************************************************)
(* Properties of calls made side by side, checked under SpecPair.          *)
(***************************************************************************)
\* C13: whatever the interleaving of the callers' calls, and whatever call
\* a caller made before, two calls given the same word and maxlength have
\* returned the same pair of codes.
Deterministic ==
    \A t, u \in Callers :
        \A r1 \in dm[t].returns, r2 \in dm[u].returns :
            (r1[1] = r2[1] /\ r1[2] = r2[2]) => r1 = r2

\* Both callers have made two calls, one of them two different calls, and
\* both have made a call with the same word and length, which returned two
\* codes.
DeterministicWitness ==
    /\ \A t \in Callers : dm[t].pc = "done" /\ dm[t].calls = 2
    /\ Cardinality(dm[1].returns) = 2
    /\ \E r \in dm[1].returns \cap dm[2].returns : r[3] # "" /\ r[4] # ""

=============================================================================
